---------------------------- MODULE Spec2Model ----------------------------
(***************************************************************************)
(* Shows Review: the Express application of the entry module (middleware   *)
(* chain, three GET routes, listen) and the three page handlers of         *)
(* src/controllers/routes.js.                                              *)
(*                                                                         *)
(* A path is the sequence of its segments after the leading slash:         *)
(*   "/" = <<"">>   "/movies" = <<"movies">>   "/movies/" = <<"movies","">>*)
(* The environment of the process (PORT, the files of public/, the         *)
(* templates the view engine can render) is chosen in Init and never       *)
(* changed by the program.                                                 *)
(***************************************************************************)
EXTENDS Naturals, Sequences, FiniteSets

VARIABLES
    envPORT,      \* process.env.PORT: {} when unset, {s} when set to the string s
    publicFiles,  \* the files under public/, each a path relative to it
    views,        \* the template names the view engine can resolve and render
    settings,     \* app.set(...) values
    stack,        \* the middleware chain, in app.use / router order
    routes,       \* the route table, in registration order
    PORT,         \* const PORT
    server,       \* "binding" | "listening" | "failed"
    listening,    \* the ports the server is bound to
    console,      \* the lines written by console.log
    requests      \* the requests accepted and not yet closed

vars == <<envPORT, publicFiles, views, settings, stack, routes, PORT, server,
          listening, console, requests>>

(***************************************************************************)
(* Bounds of the model.                                                    *)
(***************************************************************************)
MaxInFlight == 2

Methods == {"GET", "HEAD", "POST", "OPTIONS"}

Paths == { <<"">>, <<"movies">>, <<"tv-shows">>, <<"movies", "">>,
           <<"MOVIES">>, <<"style.css">> }

\* content type and payload of the request body ("none": no body at all)
NoBody == [ctype |-> "none", payload |-> "none"]

Bodies == { NoBody,
            [ctype |-> "json", payload |-> "valid"],
            [ctype |-> "json", payload |-> "malformed"],
            [ctype |-> "form", payload |-> "oversize"] }

\* the requests sent: every method on every path without a body, and the
\* bodies on two methods and two of the registered paths
Requests ==
    { q \in [method : Methods, path : Paths, body : Bodies] :
        \/ q.body = NoBody
        \/ q.method \in {"GET", "POST"} /\ q.path \in { <<"">>, <<"style.css">> } }

EnvPORTValues == { {}, {""}, {"8080"} }

PublicFileSets == { {},
                    { <<"index.html">>, <<"movies">>, <<"style.css">>,
                      <<"tv-shows", "index.html">> } }

ViewSets == { {"home", "movies", "tv-shows"}, {"home"} }

(***************************************************************************)
(* src/controllers/routes.js: the page handlers.  Each returns the view    *)
(* descriptor it hands to res.render.                                      *)
(***************************************************************************)
\* a handler that branches on the request
renderHome_ReadsRequest(req) ==
    [templateName |-> "home",
     context |-> [title |-> IF req.ctype = "none" THEN "Home - Shows Review"
                            ELSE "Home", currentPage |-> "home"]]

renderHome(req) ==
    [templateName |-> "home",
     context |-> [title |-> "Home - Shows Review", currentPage |-> "home"]]

\* a handler that takes its navigation identifier from the request path
renderMovies_ReadsPath(req) ==
    [templateName |-> "movies",
     context |-> [title |-> "Movies - Shows Review", currentPage |-> req.path[1]]]

\* a slip in one literal of the handler
renderMovies_WrongTitle(req) ==
    [templateName |-> "movies",
     context |-> [title |-> "Home - Shows Review", currentPage |-> "movies"]]

renderMovies(req) ==
    [templateName |-> "movies",
     context |-> [title |-> "Movies - Shows Review", currentPage |-> "movies"]]

\* a slip in the navigation identifier
renderTVShows_WrongPage(req) ==
    [templateName |-> "tv-shows",
     context |-> [title |-> "TV Shows - Shows Review", currentPage |-> "tvshows"]]

renderTVShows(req) ==
    [templateName |-> "tv-shows",
     context |-> [title |-> "TV Shows - Shows Review", currentPage |-> "tv-shows"]]

\* the descriptor kept in one place shared by the requests in flight
Invoke_Shared(handler, req) ==
    IF \E q \in requests : q.at = "render"
    THEN (CHOOSE q \in requests : q.at = "render").rendered[1]
    ELSE CASE handler = "renderHome"    -> renderHome(req)
           [] handler = "renderMovies"  -> renderMovies(req)
           [] handler = "renderTVShows" -> renderTVShows(req)

Invoke(handler, req) ==
    CASE handler = "renderHome"    -> renderHome(req)
      [] handler = "renderMovies"  -> renderMovies(req)
      [] handler = "renderTVShows" -> renderTVShows(req)

(***************************************************************************)
(* Startup: the entry module, top to bottom.                               *)
(***************************************************************************)
DefaultPort == 3000

\* Number(s) for the strings of EnvPORTValues
ToNumber(s) == IF s = "8080" THEN 8080 ELSE 0

\* the environment ignored
PortOf_Default(env) == DefaultPort

\* process.env.PORT || 3000: the empty string is falsy
PortOf(env) ==
    IF env = {} \/ env = {""} THEN DefaultPort
    ELSE ToNumber(CHOOSE s \in env : TRUE)

ViewSettings == [viewEngine |-> "ejs", views |-> <<"src", "views">>]

\* the routes registered above the app.use lines
MiddlewareStack_RoutesFirst == <<"router", "urlencoded", "json", "static">>

\* the app.use lines and the router, in the order of registration
MiddlewareStack == <<"urlencoded", "json", "static", "router">>

RouteTable ==
    << [method |-> "GET", path |-> <<"">>,         handler |-> "renderHome"],
       [method |-> "GET", path |-> <<"movies">>,   handler |-> "renderMovies"],
       [method |-> "GET", path |-> <<"tv-shows">>, handler |-> "renderTVShows"] >>

StartupMessage(p) == [text |-> "Server is running on http://127.0.0.1:", port |-> p]

Init ==
    /\ envPORT \in EnvPORTValues
    /\ publicFiles \in PublicFileSets
    /\ views \in ViewSets
    /\ settings = ViewSettings
    /\ stack = MiddlewareStack
    /\ routes = RouteTable
    /\ PORT = PortOf(envPORT)
    /\ server = "binding"
    /\ listening = {}
    /\ console = <<>>
    /\ requests = {}

\* app.listen(PORT, callback): the bind succeeds and the callback logs
ListenOk ==
    /\ server = "binding"
    /\ server' = "listening"
    /\ listening' = {PORT}
    /\ console' = Append(console, StartupMessage(PORT))
    /\ UNCHANGED <<envPORT, publicFiles, views, settings, stack, routes, PORT, requests>>

\* the bind fails (port in use).  Express 5 (the README's "Express.js 5.x")
\* hands the callback to the server's 'error' event as well, and the callback
\* ignores its argument: it logs the same line
ListenFail ==
    /\ server = "binding"
    /\ server' = "failed"
    /\ console' = Append(console, StartupMessage(PORT))
    /\ UNCHANGED <<envPORT, publicFiles, views, settings, stack, routes, PORT,
                   listening, requests>>

(***************************************************************************)
(* A request in the chain.  `at` is the layer that holds it (an element of *)
(* stack), "render" while the view engine works, "done" once answered.     *)
(***************************************************************************)
NewRequest(id, method, path, body) ==
    [id |-> id, method |-> method, path |-> path,
     ctype |-> body.ctype, payload |-> body.payload,
     at |-> stack[1], passed |-> <<>>,
     handler |-> "none", rendered |-> <<>>,
     status |-> 0, by |-> "none"]

\* what a handler can read of the request
Req(r) == [method |-> r.method, path |-> r.path,
           ctype |-> r.ctype, payload |-> r.payload]

\* a response that is written but never ended
Respond_NotEnded(r, status, by) == [r EXCEPT !.status = status, !.by = by]

\* the response is sent and ended: the request is finished
Respond(r, status, by) == [r EXCEPT !.at = "done", !.status = status, !.by = by]

\* the end of the chain treated as a server error
FinalHandler_Error(r, errStatus) ==
    Respond(r, IF errStatus = 0 THEN 500 ELSE errStatus, "finalhandler")

\* finalhandler: no layer answered (404) or a layer called next(err)
FinalHandler(r, errStatus) ==
    Respond(r, IF errStatus = 0 THEN 404 ELSE errStatus, "finalhandler")

IndexOf(layer) == CHOOSE i \in 1..Len(stack) : stack[i] = layer

\* next(): the following layer of the stack, finalhandler after the last
PassOn(r) ==
    LET i == IndexOf(r.at)
        q == [r EXCEPT !.passed = Append(@, r.at)]
    IN IF i < Len(stack) THEN [q EXCEPT !.at = stack[i + 1]]
       ELSE FinalHandler(q, 0)

Replace(r, q) == requests' = (requests \ {r}) \cup {q}

\* request handling that sets the views directory again
Frame_SetsViews ==
    /\ settings' = [settings EXCEPT !.views = <<"views">>]
    /\ UNCHANGED <<envPORT, publicFiles, views, stack, routes, PORT,
                   server, listening, console>>

Frame == UNCHANGED <<envPORT, publicFiles, views, settings, stack, routes, PORT,
                     server, listening, console>>

\* the lowest connection number not in use
FreeId == CHOOSE i \in 1..MaxInFlight :
            /\ \A r \in requests : r.id # i
            /\ \A j \in 1..(i - 1) : \E r \in requests : r.id = j

\* the server accepts a connection and hands the request to the first layer
Arrive(method, path, body) ==
    /\ server = "listening"
    /\ Cardinality(requests) < MaxInFlight
    /\ requests' = requests \cup {NewRequest(FreeId, method, path, body)}
    /\ Frame

(***************************************************************************)
(* express.urlencoded({extended: true}) and express.json(): a request with *)
(* no body, or a body of another content type, is passed on untouched.     *)
(* Result: 0 to pass on, else the status of the error given to next(err).  *)
(***************************************************************************)
UrlencodedResult(ctype, payload) ==
    IF ctype = "form" /\ payload = "oversize" THEN 413 ELSE 0

JsonResult(ctype, payload) ==
    IF ctype # "json" THEN 0
    ELSE IF payload = "oversize" THEN 413
    ELSE IF payload = "malformed" THEN 400
    ELSE 0

Urlencoded(r) ==
    /\ r.at = "urlencoded"
    /\ LET e == UrlencodedResult(r.ctype, r.payload)
       IN Replace(r, IF e = 0 THEN PassOn(r) ELSE FinalHandler(r, e))
    /\ Frame

Json(r) ==
    /\ r.at = "json"
    /\ LET e == JsonResult(r.ctype, r.payload)
       IN Replace(r, IF e = 0 THEN PassOn(r) ELSE FinalHandler(r, e))
    /\ Frame

(***************************************************************************)
(* express.static(public): GET and HEAD only.  A file is sent, a directory *)
(* named without its trailing slash is redirected to, a directory named    *)
(* with it serves its index.html; anything else falls through.             *)
(***************************************************************************)
IsDirectory(d) ==
    \E f \in publicFiles : Len(f) > Len(d) /\ SubSeq(f, 1, Len(d)) = d

StaticLookup(path) ==
    LET n == Len(path)
        dir == SubSeq(path, 1, n - 1)
    IN IF path[n] = ""
       THEN IF (n = 1 \/ IsDirectory(dir)) /\ Append(dir, "index.html") \in publicFiles
            THEN "file" ELSE "miss"
       ELSE IF path \in publicFiles THEN "file"
       ELSE IF IsDirectory(path) THEN "redirect"
       ELSE "miss"

StaticResult(method, path) ==
    IF method \notin {"GET", "HEAD"} THEN "miss" ELSE StaticLookup(path)

Static(r) ==
    /\ r.at = "static"
    /\ LET s == StaticResult(r.method, r.path)
       IN Replace(r, CASE s = "file"     -> Respond(r, 200, "static")
                       [] s = "redirect" -> Respond(r, 301, "static")
                       [] OTHER          -> PassOn(r))
    /\ Frame

(***************************************************************************)
(* The router: app.get(path, handler).  Paths match case-insensitively and *)
(* with an optional trailing slash; a GET route also handles HEAD; OPTIONS *)
(* on a path some route matches is answered with the Allow list.           *)
(***************************************************************************)
ToLower(seg) ==
    CASE seg = "MOVIES"   -> "movies"
      [] seg = "TV-SHOWS" -> "tv-shows"
      [] OTHER            -> seg

\* the pattern matched as a prefix, as a mount path is
PathMatches_Prefix(pattern, path) ==
    \/ pattern = <<"">>
    \/ /\ Len(path) >= Len(pattern)
       /\ \A i \in 1..Len(pattern) : ToLower(path[i]) = ToLower(pattern[i])

PathMatches(pattern, path) ==
    LET n == Len(path)
        p == IF n > 1 /\ path[n] = "" /\ path[n - 1] # ""
             THEN SubSeq(path, 1, n - 1) ELSE path
    IN /\ Len(p) = Len(pattern)
       /\ \A i \in 1..Len(p) : ToLower(p[i]) = ToLower(pattern[i])

\* the route registered for every method
HandlesMethod_All(route, method) == TRUE

HandlesMethod(route, method) ==
    \/ route.method = method
    \/ route.method = "GET" /\ method = "HEAD"

RECURSIVE FirstMatch(_, _, _)
FirstMatch(i, method, path) ==
    IF i > Len(routes) THEN 0
    ELSE IF PathMatches(routes[i].path, path) /\ HandlesMethod(routes[i], method)
    THEN i
    ELSE FirstMatch(i + 1, method, path)

AllowedMethods(path) ==
    UNION { IF routes[i].method = "GET" THEN {"GET", "HEAD"} ELSE {routes[i].method}
            : i \in { j \in 1..Len(routes) : PathMatches(routes[j].path, path) } }

\* a matching route's handler runs at once and calls res.render
Router(r) ==
    /\ r.at = "router"
    /\ LET k == FirstMatch(1, r.method, r.path)
       IN Replace(r,
            IF k > 0
            THEN [r EXCEPT !.at = "render",
                           !.handler = routes[k].handler,
                           !.rendered = Append(@, Invoke(routes[k].handler, Req(r)))]
            ELSE IF r.method = "OPTIONS" /\ AllowedMethods(r.path) # {}
            THEN Respond(r, 200, "router")
            ELSE PassOn(r))
    /\ Frame

(***************************************************************************)
(* res.render(name, context) without a callback: the body is sent with the *)
(* default status, a failure goes to next(err) and finalhandler.           *)
(***************************************************************************)
\* a missing template taken for a missing page
RenderResult_NotFound(name) == IF name \in views THEN 200 ELSE 404

RenderResult(name) == IF name \in views THEN 200 ELSE 500

Render(r) ==
    /\ r.at = "render"
    /\ LET s == RenderResult(r.rendered[Len(r.rendered)].templateName)
       IN Replace(r, IF s = 200 THEN Respond(r, 200, "render")
                     ELSE FinalHandler(r, s))
    /\ Frame

\* the response has been written out and the request is forgotten
Close(r) ==
    /\ r.at = "done"
    /\ requests' = requests \ {r}
    /\ Frame

Next ==
    \/ ListenOk
    \/ ListenFail
    \/ \E q \in Requests : Arrive(q.method, q.path, q.body)
    \/ \E r \in requests : Urlencoded(r)
    \/ \E r \in requests : Json(r)
    \/ \E r \in requests : Static(r)
    \/ \E r \in requests : Router(r)
    \/ \E r \in requests : Render(r)
    \/ \E r \in requests : Close(r)

Spec == Init /\ [][Next]_vars


(***************************************************************************)
(* Vocabulary of the properties.                                           *)
(***************************************************************************)
RegisteredPaths == { <<"">>, <<"movies">>, <<"tv-shows">> }

HandlerOf(path) ==
    CASE path = <<"">>         -> "renderHome"
      [] path = <<"movies">>   -> "renderMovies"
      [] path = <<"tv-shows">> -> "renderTVShows"

TemplateOf(path) ==
    CASE path = <<"">>         -> "home"
      [] path = <<"movies">>   -> "movies"
      [] path = <<"tv-shows">> -> "tv-shows"

Done(r) == r.at = "done"

\* both body parsers have passed the request on
ParsersPassed(r) == Len(r.passed) >= 2 /\ r.passed[1] = "urlencoded" /\ r.passed[2] = "json"

\* the path with upper-case letters folded and one trailing slash dropped
Folded(path) ==
    LET n == Len(path)
        p == IF n > 1 /\ path[n] = "" /\ path[n - 1] # ""
             THEN SubSeq(path, 1, n - 1) ELSE path
    IN [i \in 1..Len(p) |-> IF p[i] = "MOVIES" THEN "movies"
                            ELSE IF p[i] = "TV-SHOWS" THEN "tv-shows" ELSE p[i]]

(***************************************************************************)
(* C1: every GET request to /, /movies or /tv-shows is dispatched to the   *)
(* handler registered for that path and ends with status 200 and a body    *)
(* rendered from the matching template.  Stated for the requests without a *)
(* body whose template the view engine can render.                         *)
(* Fails: express.static runs before the routes and answers GET / with     *)
(* public/index.html when that file exists.                                *)
(***************************************************************************)
C1_GetRegisteredRenders ==
    \A r \in requests :
        ( /\ r.method = "GET" /\ r.path \in RegisteredPaths
          /\ r.ctype = "none" /\ TemplateOf(r.path) \in views
          /\ Done(r) )
        => /\ r.status = 200
           /\ r.by = "render"
           /\ r.handler = HandlerOf(r.path)
           /\ Len(r.rendered) = 1
           /\ r.rendered[1].templateName = TemplateOf(r.path)

(***************************************************************************)
(* C2: every invocation of a page handler requests exactly the fixed view  *)
(* descriptor of that handler, whatever the request; the context has the   *)
(* keys title and currentPage and no others.                               *)
(***************************************************************************)
C2_FixedViewDescriptor ==
    \A r \in requests :
        r.handler # "none" =>
            /\ Len(r.rendered) = 1
            /\ DOMAIN r.rendered[1] = {"templateName", "context"}
            /\ DOMAIN r.rendered[1].context = {"title", "currentPage"}
            /\ r.handler = "renderHome" =>
                  /\ r.rendered[1].templateName = "home"
                  /\ r.rendered[1].context.title = "Home - Shows Review"
                  /\ r.rendered[1].context.currentPage = "home"
            /\ r.handler = "renderMovies" =>
                  /\ r.rendered[1].templateName = "movies"
                  /\ r.rendered[1].context.title = "Movies - Shows Review"
                  /\ r.rendered[1].context.currentPage = "movies"
            /\ r.handler = "renderTVShows" =>
                  /\ r.rendered[1].templateName = "tv-shows"
                  /\ r.rendered[1].context.title = "TV Shows - Shows Review"
                  /\ r.rendered[1].context.currentPage = "tv-shows"
            /\ r.handler \in {"renderHome", "renderMovies", "renderTVShows"}

\* all three handlers have been invoked, one of them for a request with a body
C2_Witness ==
    /\ \E r \in requests : r.handler = "renderHome" /\ r.ctype = "json"
    /\ \E r \in requests : r.handler \in {"renderMovies", "renderTVShows"}
                           /\ Len(r.rendered) = 1


(***************************************************************************)
(* C3 (as claimed): a GET request to a path other than /, /movies and      *)
(* /tv-shows that the static middleware does not answer invokes no page    *)
(* handler, requests no render and ends with status 404.                   *)
(* Stated for the requests without a body.                                 *)
(* Fails: GET /MOVIES and GET /movies/ match the route /movies.            *)
(***************************************************************************)
C3_UnregisteredPathIs404 ==
    \A r \in requests :
        ( /\ r.method = "GET" /\ r.path \notin RegisteredPaths
          /\ r.by # "static" /\ r.ctype = "none" )
        => /\ r.handler = "none"
           /\ r.rendered = <<>>
           /\ Done(r) => r.status = 404

(***************************************************************************)
(* C3 (amended): a GET request whose path, with upper-case letters folded  *)
(* and one trailing slash dropped, is none of /, /movies and /tv-shows,    *)
(* and that the static middleware does not answer, invokes no page         *)
(* handler and requests no render; once the body parsers have passed it    *)
(* on it ends with status 404.                                             *)
(***************************************************************************)
C3_UnmatchedPathIs404 ==
    \A r \in requests :
        (r.method = "GET" /\ Folded(r.path) \notin RegisteredPaths /\ r.by # "static")
        => /\ r.handler = "none"
           /\ r.rendered = <<>>
           /\ (Done(r) /\ ParsersPassed(r)) => (r.status = 404 /\ r.by = "finalhandler")

\* GET /style.css with no such file was answered 404 after the whole chain
C3_Witness ==
    \E r \in requests :
        /\ r.method = "GET" /\ r.path = <<"style.css">> /\ r.ctype = "json"
        /\ Done(r) /\ r.status = 404
        /\ r.passed = <<"urlencoded", "json", "static", "router">>

(***************************************************************************)
(* C4 (as claimed): a page handler is invoked only for a GET request to    *)
(* the very path it is registered for; a request with another method to    *)
(* /, /movies or /tv-shows invokes no handler and ends with status 404.    *)
(* The status is stated for the requests without a body.                   *)
(* Fails: HEAD / is dispatched to renderHome; OPTIONS / is answered 200.   *)
(***************************************************************************)
C4_OnlyGetExactPath ==
    \A r \in requests :
        /\ r.handler # "none" =>
              /\ r.method = "GET"
              /\ r.path \in RegisteredPaths
              /\ r.handler = HandlerOf(r.path)
        /\ (r.method # "GET" /\ r.path \in RegisteredPaths) =>
              /\ r.handler = "none"
              /\ (Done(r) /\ r.ctype = "none") => r.status = 404

(***************************************************************************)
(* C4 (amended): a page handler is invoked only for a GET or HEAD request  *)
(* whose path, with upper-case letters folded and one trailing slash       *)
(* dropped, is the one it is registered for; a request with any other      *)
(* method to /, /movies or /tv-shows invokes no handler and, once the body *)
(* parsers have passed it on, ends with status 404, except OPTIONS, which  *)
(* the router answers with status 200 and the allowed methods.             *)
(***************************************************************************)
C4_OnlyGetOrHeadMatchingPath ==
    \A r \in requests :
        /\ r.handler # "none" =>
              /\ r.method \in {"GET", "HEAD"}
              /\ Folded(r.path) \in RegisteredPaths
              /\ r.handler = HandlerOf(Folded(r.path))
        /\ (r.method \notin {"GET", "HEAD"} /\ r.path \in RegisteredPaths) =>
              /\ r.handler = "none"
              /\ r.rendered = <<>>
              /\ (Done(r) /\ ParsersPassed(r)) =>
                    IF r.method = "OPTIONS"
                    THEN r.status = 200 /\ r.by = "router"
                    ELSE r.status = 404 /\ r.by = "finalhandler"

\* POST / ended 404 while HEAD /movies reached renderMovies
C4_Witness ==
    /\ \E r \in requests :
          /\ r.method = "POST" /\ r.path = <<"">> /\ Done(r)
          /\ r.status = 404 /\ r.handler = "none"
    /\ \E r \in requests :
          r.method = "HEAD" /\ r.path = <<"movies">> /\ r.handler = "renderMovies"

(***************************************************************************)
(* C5: the static middleware never answers a GET request to /, /movies or  *)
(* /tv-shows, whatever files public/ holds: the response comes from the    *)
(* registered page handler.                                                *)
(* Fails: with public/index.html present GET / is answered by              *)
(* express.static, which is mounted before the routes.                     *)
(***************************************************************************)
C5_StaticNeverIntercepts ==
    \A r \in requests :
        (r.method = "GET" /\ r.path \in RegisteredPaths /\ Done(r))
        => r.by # "static"


(***************************************************************************)
(* C6: idempotence.  Two GET requests to the same registered path that     *)
(* reach their handler produce identical view descriptors (same template   *)
(* name, same context), whichever requests were served between them.       *)
(***************************************************************************)
C6_SamePathSameDescriptor ==
    \A r1, r2 \in requests :
        ( /\ r1.method = "GET" /\ r2.method = "GET"
          /\ r1.path = r2.path /\ r1.path \in RegisteredPaths
          /\ r1.handler # "none" /\ r2.handler # "none" )
        => /\ r1.rendered = r2.rendered
           /\ Len(r1.rendered) = 1

\* two GET / requests that differ in their body have both reached renderHome
C6_Witness ==
    \E r1, r2 \in requests :
        /\ r1.id # r2.id
        /\ r1.method = "GET" /\ r2.method = "GET"
        /\ r1.path = <<"">> /\ r2.path = <<"">>
        /\ r1.ctype = "none" /\ r2.ctype = "json"
        /\ r1.handler = "renderHome" /\ r2.handler = "renderHome"
        /\ Done(r1) /\ r2.at = "render"

(***************************************************************************)
(* C7: when the view engine cannot resolve or render the template a page   *)
(* handler names, the request ends with status 500, not 200 and not 404;   *)
(* the handler has requested its render as ever and handled nothing.       *)
(***************************************************************************)
C7_RenderFailureIs500 ==
    \A r \in requests :
        ( /\ r.handler # "none" /\ Done(r)
          /\ r.rendered[1].templateName \notin views )
        => /\ r.status = 500
           /\ r.by = "finalhandler"
           /\ r.rendered = << Invoke(r.handler, Req(r)) >>

\* GET /movies ended 500 where only the home template exists
C7_Witness ==
    \E r \in requests :
        /\ r.method = "GET" /\ r.path = <<"movies">>
        /\ r.handler = "renderMovies" /\ "movies" \notin views
        /\ Done(r) /\ r.status = 500

(***************************************************************************)
(* C8 (as claimed): the server listens on the PORT value of the            *)
(* environment when one is set and on 3000 when PORT is unset; exactly one *)
(* port is chosen.                                                         *)
(* Fails: PORT set to the empty string is falsy and 3000 is chosen.        *)
(***************************************************************************)
C8_ListensOnPortWhenSet ==
    server = "listening" =>
        /\ Cardinality(listening) = 1
        /\ envPORT # {} => listening = { ToNumber(CHOOSE v \in envPORT : TRUE) }
        /\ envPORT = {} => listening = {3000}

(***************************************************************************)
(* C8 (amended): the server listens on the PORT value of the environment   *)
(* when one is set and is not the empty string, and on 3000 when PORT is   *)
(* unset or empty; exactly one port is chosen.                             *)
(***************************************************************************)
C8_ListensOnPortWhenNonEmpty ==
    server = "listening" =>
        /\ Cardinality(listening) = 1
        /\ (envPORT # {} /\ envPORT # {""}) =>
              listening = { ToNumber(CHOOSE v \in envPORT : TRUE) }
        /\ (envPORT = {} \/ envPORT = {""}) => listening = {3000}

\* PORT=8080 and the server is bound to 8080
C8_Witness ==
    /\ server = "listening"
    /\ envPORT = {"8080"}
    /\ listening = {8080}

(***************************************************************************)
(* C9: an unmatched request is a terminal "not found" outcome with the     *)
(* fixed status 404, not something that aborts the process: once a 404 has *)
(* been served the server keeps running, and a GET to a registered path    *)
(* answered after it still gets status 200 and its template.               *)
(***************************************************************************)
NotFoundServed ==
    \E q \in requests : Done(q) /\ q.status = 404

C9_NotFoundDoesNotAbort ==
    [][ /\ \A q \in requests' :
              q.passed = MiddlewareStack =>
                  (Done(q) /\ q.status = 404 /\ q.by = "finalhandler")
        /\ NotFoundServed =>
              /\ server' = "listening"
              /\ \A r \in requests, q \in requests' :
                    ( /\ r.id = q.id /\ r.at = "render" /\ Done(q)
                      /\ r.method = "GET" /\ r.path \in RegisteredPaths
                      /\ TemplateOf(r.path) \in views )
                    => /\ q.status = 200
                       /\ q.by = "render"
                       /\ q.handler = HandlerOf(r.path)
                       /\ q.rendered[1].templateName = TemplateOf(r.path)
      ]_vars

\* a 404 has been served, the server runs, and a GET /tv-shows whose template
\* exists is at the point of being answered
C9_Witness ==
    /\ server = "listening"
    /\ \E q \in requests :
          Done(q) /\ q.status = 404 /\ q.by = "finalhandler" /\ q.passed = MiddlewareStack
    /\ \E r \in requests :
          /\ r.method = "GET" /\ r.path = <<"tv-shows">>
          /\ r.at = "render" /\ "tv-shows" \in views

(***************************************************************************)
(* C10 (as claimed): a request's outcome depends only on its own method    *)
(* and path: two requests with the same method and path get the same       *)
(* status and view descriptor, whatever else they carry and whichever      *)
(* other requests are in flight.                                           *)
(* Fails: GET / with a malformed JSON body ends 400, GET / without a body  *)
(* does not.                                                               *)
(***************************************************************************)
C10_OutcomeByMethodAndPath ==
    \A r1, r2 \in requests :
        ( /\ r1.method = r2.method /\ r1.path = r2.path
          /\ Done(r1) /\ Done(r2) )
        => /\ r1.status = r2.status
           /\ r1.rendered = r2.rendered

(***************************************************************************)
(* C10 (amended): under every interleaving, a request's outcome depends    *)
(* only on that request's own content, its method, its path and the body   *)
(* and body headers the parsers read: two requests with the same method,   *)
(* path and body get the same outcome whichever other requests are in      *)
(* flight or were served before.                                           *)
(***************************************************************************)
C10_OutcomeByOwnContent ==
    \A r1, r2 \in requests :
        Req(r1) = Req(r2) =>
            /\ (r1.handler # "none" /\ r2.handler # "none") =>
                  (r1.handler = r2.handler /\ r1.rendered = r2.rendered)
            /\ (Done(r1) /\ Done(r2)) =>
                  /\ r1.status = r2.status
                  /\ r1.by = r2.by
                  /\ r1.handler = r2.handler
                  /\ r1.rendered = r2.rendered
                  /\ r1.passed = r2.passed

\* two like requests, one on each connection, have both been answered
C10_Witness ==
    \E r1, r2 \in requests :
        /\ r1.id # r2.id /\ Req(r1) = Req(r2)
        /\ r1.method = "GET" /\ r1.path = <<"movies">>
        /\ Done(r1) /\ Done(r2)
        /\ r1.handler = "renderMovies"


(***************************************************************************)
(* C11: in every reachable state, every view descriptor handed to the      *)
(* view engine has a currentPage that is one of home, movies, tv-shows.    *)
(***************************************************************************)
NavigationIds == {"home", "movies", "tv-shows"}

C11_CurrentPageEnumerated ==
    \A r \in requests :
        \A i \in 1..Len(r.rendered) :
            r.rendered[i].context.currentPage \in NavigationIds

\* descriptors of two different pages have been handed over
C11_Witness ==
    /\ \E r \in requests :
          Len(r.rendered) = 1 /\ r.rendered[1].context.currentPage = "tv-shows"
    /\ \E r \in requests :
          Len(r.rendered) = 1 /\ r.rendered[1].context.currentPage = "home"

(***************************************************************************)
(* C12: serving requests leaves the shared state unchanged: once the       *)
(* server listens, the middleware chain, the route table, the view         *)
(* settings and the chosen port are what startup made them, after any      *)
(* sequence of requests.                                                   *)
(***************************************************************************)
C12_SharedStateUnchanged ==
    server = "listening" =>
        /\ stack = MiddlewareStack
        /\ routes = RouteTable
        /\ settings = ViewSettings
        /\ PORT = PortOf(envPORT)
        /\ listening = {PORT}

\* two requests have been answered, one rendered by a handler and one not found
C12_Witness ==
    /\ server = "listening"
    /\ \E r1, r2 \in requests :
          /\ Done(r1) /\ r1.handler # "none" /\ r1.status = 200
          /\ Done(r2) /\ r2.status = 404


(***************************************************************************)
(* The same application with the three app.get lines written in any       *)
(* order: a second specification, for the properties that speak of the     *)
(* registration order.  Nothing is served from public/ here, so that every *)
(* request reaches the router.                                             *)
(***************************************************************************)
RouteOrders ==
    { [i \in 1..Len(RouteTable) |-> RouteTable[f[i]]] :
        f \in { g \in [1..Len(RouteTable) -> 1..Len(RouteTable)] :
                  \A i, j \in 1..Len(RouteTable) : i # j => g[i] # g[j] } }

InitAnyOrder ==
    /\ envPORT = {}
    /\ publicFiles = {}
    /\ views \in ViewSets
    /\ settings = ViewSettings
    /\ stack = MiddlewareStack
    /\ routes \in RouteOrders
    /\ PORT = PortOf(envPORT)
    /\ server = "binding"
    /\ listening = {}
    /\ console = <<>>
    /\ requests = {}

SpecAnyOrder == InitAnyOrder /\ [][Next]_vars

(***************************************************************************)
(* C13: dispatch picks the first registration, in registration order,      *)
(* whose method and path match; no request matches more than one of the    *)
(* three registrations, so every request's outcome is the same for every   *)
(* permutation of the registration order (the one of the code included).   *)
(***************************************************************************)
MatchingIn(table, r) ==
    { i \in 1..Len(table) :
        PathMatches(table[i].path, r.path) /\ HandlesMethod(table[i], r.method) }

\* the handler the request gets under the order /, /movies, /tv-shows
HandlerInCodeOrder(r) ==
    LET m == MatchingIn(RouteTable, r)
    IN IF m = {} THEN "none"
       ELSE RouteTable[CHOOSE i \in m : \A j \in m : i <= j].handler

C13_OrderIrrelevant ==
    \A r \in requests :
        LET m == MatchingIn(routes, r)
        IN /\ Cardinality(m) <= 1
           /\ r.handler # "none" =>
                 \E i \in m : /\ routes[i].handler = r.handler
                              /\ \A j \in m : i <= j
           /\ (r.at \in {"render", "done"} /\ Len(r.passed) >= 3) =>
                 /\ r.handler = HandlerInCodeOrder(r)
                 /\ r.rendered = IF HandlerInCodeOrder(r) = "none" THEN <<>>
                                 ELSE << Invoke(HandlerInCodeOrder(r), Req(r)) >>
           /\ (Done(r) /\ Len(r.passed) >= 3) =>
                 r.status = IF HandlerInCodeOrder(r) # "none"
                            THEN RenderResult(Invoke(HandlerInCodeOrder(r), Req(r)).templateName)
                            ELSE IF r.method = "OPTIONS" /\ Folded(r.path) \in RegisteredPaths
                            THEN 200 ELSE 404

\* with the routes registered in reverse, GET /movies was rendered by renderMovies
C13_Witness ==
    /\ routes[1].path = <<"tv-shows">> /\ routes[3].path = <<"">>
    /\ \E r \in requests :
          /\ r.method = "GET" /\ r.path = <<"movies">>
          /\ r.handler = "renderMovies" /\ Done(r) /\ r.status = 200


(***************************************************************************)
(* C14: the startup message "Server is running on http://127.0.0.1:<PORT>" *)
(* is emitted only after the server has bound the port, names the port     *)
(* chosen, and is never emitted when the bind fails.                       *)
(* Fails: app.listen runs the callback on a bind error too, and the        *)
(* callback takes no argument and logs the line regardless.                *)
(***************************************************************************)
C14_MessageOnlyAfterBind ==
    /\ \A i \in 1..Len(console) :
          /\ server = "listening"
          /\ console[i].text = "Server is running on http://127.0.0.1:"
          /\ listening = {console[i].port}
    /\ server = "failed" => console = <<>>


(***************************************************************************)
(* The application under a scheduler that keeps serving every connection:  *)
(* Node's event loop runs each pending stage of each accepted request.     *)
(***************************************************************************)
Progress(i) ==
    \E r \in requests :
        /\ r.id = i
        /\ (Urlencoded(r) \/ Json(r) \/ Static(r) \/ Router(r) \/ Render(r))

FairSpec == Init /\ [][Next]_vars /\ \A i \in 1..MaxInFlight : WF_vars(Progress(i))

\* every status a request of this application can end with
TerminalStatuses == {200, 301, 400, 404, 413, 500}

C15_Outcomes ==
    \A r \in requests :
        /\ Done(r) <=> r.status # 0
        /\ Done(r) => (r.status \in TerminalStatuses /\ r.by # "none")
        /\ r.handler # "none" <=> Len(r.rendered) = 1
        /\ Len(r.rendered) <= 1
        /\ r.by = "render" => (r.status = 200 /\ r.handler # "none")

\* a finished request stays as it is until its connection is closed
C15_RespondsOnce ==
    \A r \in requests :
        Done(r) => \/ r \in requests'
                   \/ \A q \in requests' : q.id # r.id

Handlers == {"renderHome", "renderMovies", "renderTVShows"}

\* what a handler can read of a GET / without a body
PlainGet == Req(NewRequest(1, "GET", <<"">>, NoBody))

\* a step that invokes a page handler changes nothing but that request
HandlerStepIsPure ==
    (\E q \in requests' : q.handler # "none" /\ q \notin requests)
        => UNCHANGED <<envPORT, publicFiles, views, settings, stack, routes,
                       PORT, server, listening, console>>

(***************************************************************************)
(* C16: a page handler never reads its request: whatever two requests are  *)
(* passed to the same handler (different method, path or body), the        *)
(* template name and the context it asks to render are the same (each      *)
(* equals what the handler asks for a plain GET /), and the step that runs *)
(* the handler touches nothing but the render request.                     *)
(***************************************************************************)
C16_HandlerNeverReadsRequest ==
    /\ [](\A h \in Handlers : \A q \in Requests :
             Invoke(h, Req(NewRequest(1, q.method, q.path, q.body)))
               = Invoke(h, PlainGet))
    /\ [](\A r1, r2 \in requests :
             (r1.handler = r2.handler /\ r1.handler # "none")
                 => r1.rendered = r2.rendered)
    /\ [][HandlerStepIsPure]_vars

\* renderMovies has run for GET /movies and for HEAD /MOVIES
C16_Witness ==
    \E r1, r2 \in requests :
        /\ r1.method = "GET"  /\ r1.path = <<"movies">>
        /\ r2.method = "HEAD" /\ r2.path = <<"MOVIES">>
        /\ r1.handler = "renderMovies" /\ r2.handler = "renderMovies"
        /\ Len(r1.rendered) = 1 /\ Len(r2.rendered) = 1

\* the stages that have passed r on are the first ones of the stack
PassedInOrder(r) ==
    /\ Len(r.passed) <= Len(MiddlewareStack)
    /\ \A i \in 1..Len(r.passed) : r.passed[i] = MiddlewareStack[i]

(***************************************************************************)
(* C17: a request goes through urlencoded parser, JSON parser, static      *)
(* middleware and route table in that order: a page handler has run for a  *)
(* request only if the three earlier stages have each passed it on, and a  *)
(* request answered or rejected by an earlier stage has reached no page    *)
(* handler.                                                                *)
(***************************************************************************)
C17_StagesInFixedOrder ==
    \A r \in requests :
        /\ PassedInOrder(r)
        /\ r.at \in {"urlencoded", "json", "static", "router"}
              => r.at = MiddlewareStack[Len(r.passed) + 1]
        /\ r.handler # "none" => r.passed = <<"urlencoded", "json", "static">>
        /\ (Done(r) /\ Len(r.passed) < 3)
              => (r.handler = "none" /\ r.rendered = <<>> /\ r.by # "render")

\* one request with a malformed JSON body was rejected by the JSON parser
\* and reached no handler; another went through all three stages to its
\* handler
C17_Witness ==
    \E r1, r2 \in requests :
        /\ Done(r1) /\ r1.status = 400 /\ r1.passed = <<"urlencoded">>
        /\ r1.handler = "none"
        /\ r2.handler # "none" /\ r2.passed = <<"urlencoded", "json", "static">>
        /\ r2.ctype = "json"

=============================================================================
